---- MODULE Spec2Model ----
(***************************************************************************)
(* Model of research_knowledge_manager/ruvector_store.py: the process-wide *)
(* in-memory index _KNOWLEDGE_BASE, the per-document JSON files under      *)
(* <output_dir>/.knowledge, and the three operations store_research,       *)
(* query_knowledge and generate_report.                                    *)
(*                                                                         *)
(* Python strings are sequences of one-character strings, so that slicing, *)
(* lower(), split() and "\n".join() are computed and not assumed.  Python  *)
(* values that are not text (None, an object json cannot encode) are       *)
(* tagged records.  A dict is the sequence of its (key, value) pairs in    *)
(* insertion order, which is the order Python >= 3.7 iterates it in.       *)
(***************************************************************************)
EXTENDS Integers, Sequences, FiniteSets, TLC

VARIABLES
    _KNOWLEDGE_BASE,  \* the module-level dict: <<[key, value], ...>>
    disk,             \* files of <output_dir>/.knowledge: id -> file content
    ingested,         \* ids assigned into _KNOWLEDGE_BASE by this process
    ret               \* the last call: its name, arguments, result or error

vars == <<_KNOWLEDGE_BASE, disk, ingested, ret>>

----------------------------------------------------------------------------
(* Program constants.                                                      *)

PrefixLen == 1000       \* content[:1000] in _get_document_id
ReportLimit == 10       \* query_knowledge(topic, limit=10) in generate_report
ReportTruncate == 1000  \* item['content'][:1000] in generate_report
DefaultLimit == 5       \* limit: int = 5

(* Bounds of the model.                                                    *)

MaxLimit == 2           \* search limits range over -MaxLimit .. MaxLimit
MaxDocs == 11           \* largest pre-built index of the query specification
MaxPeriod == 3          \* pre-built indexes repeat a pattern of this many producer results

----------------------------------------------------------------------------
(* Python values.                                                          *)

None == [type |-> "NoneType"]
PyStr(s) == [type |-> "str", value |-> s]
PyObject == [type |-> "object"]      \* a value json.dump cannot encode

\* d.get(key, default) on a dict modelled as a record
get(d, key, default) == IF key \in DOMAIN d THEN d[key] ELSE default

\* s[:k] for a sequence s and any integer k
slice_to(s, k) ==
    LET n == Len(s)
        stop == IF k >= 0 THEN (IF k < n THEN k ELSE n)
                ELSE (IF n + k > 0 THEN n + k ELSE 0)
    IN  SubSeq(s, 1, stop)

UpperCase == <<"A","B","C","D","E","F","G","H","I","J","K","L","M",
               "N","O","P","Q","R","S","T","U","V","W","X","Y","Z">>
LowerCase == <<"a","b","c","d","e","f","g","h","i","j","k","l","m",
               "n","o","p","q","r","s","t","u","v","w","x","y","z">>

ToLower == [c \in {UpperCase[j] : j \in 1..26} |->
                LowerCase[CHOOSE j \in 1..26 : UpperCase[j] = c]]

\* str.lower()
lower(s) ==
    [i \in 1..Len(s) |-> IF s[i] \in DOMAIN ToLower THEN ToLower[s[i]] ELSE s[i]]

Whitespace == {" ", "\t", "\n", "\r", "\f"}

RECURSIVE split_from(_, _, _)
split_from(s, i, word) ==
    IF i > Len(s)
    THEN (IF word = <<>> THEN <<>> ELSE <<word>>)
    ELSE IF s[i] \in Whitespace
    THEN (IF word = <<>> THEN split_from(s, i + 1, <<>>)
          ELSE <<word>> \o split_from(s, i + 1, <<>>))
    ELSE split_from(s, i + 1, Append(word, s[i]))

\* str.split() with no separator: runs of whitespace separate, none are kept
split(s) == split_from(s, 1, <<>>)

\* set(seq)
set(seq) == {seq[i] : i \in 1..Len(seq)}

RECURSIVE join(_, _)
\* sep.join(parts)
join(sep, parts) ==
    IF parts = <<>> THEN <<>>
    ELSE IF Len(parts) = 1 THEN parts[1]
    ELSE parts[1] \o sep \o join(sep, Tail(parts))

Digits == <<"0","1","2","3","4","5","6","7","8","9">>

RECURSIVE str_int(_)
\* str(n) for n >= 0, as an f-string renders an int
str_int(n) ==
    IF n < 10 THEN <<Digits[n + 1]>>
    ELSE str_int(n \div 10) \o <<Digits[(n % 10) + 1]>>

----------------------------------------------------------------------------
(* Dicts in insertion order.                                               *)

dict_keys(d) == {d[i].key : i \in 1..Len(d)}

dict_get(d, k) == d[CHOOSE i \in 1..Len(d) : d[i].key = k].value

\* d[k] = v: an existing key keeps its place, a new key goes last
dict_set(d, k, v) ==
    IF k \in dict_keys(d)
    THEN [i \in 1..Len(d) |-> IF d[i].key = k THEN [key |-> k, value |-> v] ELSE d[i]]
    ELSE Append(d, [key |-> k, value |-> v])

----------------------------------------------------------------------------
(* _get_document_id                                                        *)

\* hashlib.sha256(...).hexdigest(): modelled as collision-free, the digest
\* stands for the text it was computed from
sha256_hexdigest(text) == [sha256 |-> text]

_get_document_id_whole(content, source) ==
    sha256_hexdigest(source \o <<":">> \o content)

_get_document_id(content, source) ==
    sha256_hexdigest(source \o <<":">> \o slice_to(content, PrefixLen))

----------------------------------------------------------------------------
(* store_research                                                          *)

Return(v) == [returned |-> v]
Raise(e) == [raised |-> e]

SourceTag == <<"c","l","a","u","d","e","_","f","l","o","w">>
TitlePrefix == <<"R","e","s","e","a","r","c","h",":"," ">>
SectionMark == <<"#","#"," ">>
Untitled == <<"U","n","t","i","t","l","e","d">>

\* a finding rendered with defaults for absent fields
section_defaulting(item) ==
    Return(SectionMark \o get(item, "title", Untitled) \o <<"\n">>
           \o get(item, "content", <<>>))

\* f"## {item['title']}\n{item['content']}": a subscript of an absent key
\* raises KeyError, 'title' being evaluated first
section(item) ==
    IF "title" \notin DOMAIN item THEN Raise([type |-> "KeyError", key |-> "title"])
    ELSE IF "content" \notin DOMAIN item THEN Raise([type |-> "KeyError", key |-> "content"])
    ELSE Return(SectionMark \o item["title"] \o <<"\n">> \o item["content"])

\* "\n\n".join(<generator over research_data.get("findings", [])>): the
\* generator raises at the first finding it cannot render
content_of(research_data) ==
    LET findings == get(research_data, "findings", <<>>)
        sections == [i \in 1..Len(findings) |-> section(findings[i])]
        bad == {i \in 1..Len(findings) : "raised" \in DOMAIN sections[i]}
    IN  IF bad # {}
        THEN sections[CHOOSE i \in bad : \A j \in bad : i <= j]
        ELSE Return(join(<<"\n", "\n">>,
                         [i \in 1..Len(findings) |-> sections[i].returned]))

Cwd == <<"/","w">>

\* str(output_dir.absolute()): a relative path is put under the working directory
absolute(path) ==
    IF path # <<>> /\ path[1] = "/" THEN path ELSE Cwd \o <<"/">> \o path

\* the dict literal of store_research; raises what building its content raises
document(query, research_data, output_dir) ==
    LET content == content_of(research_data)
    IN  IF "raised" \in DOMAIN content THEN content
        ELSE Return(
            [id |-> _get_document_id(query, SourceTag),
             title |-> TitlePrefix \o query,
             content |-> content.returned,
             metadata |-> [query |-> PyStr(query),
                           model |-> get(research_data, "model", None),
                           timestamp |-> get(research_data, "timestamp", None),
                           source |-> PyStr(SourceTag),
                           output_dir |-> PyStr(absolute(output_dir))],
             embeddings |-> <<>>])

MetadataKeys == <<"query", "model", "timestamp", "source", "output_dir">>

\* json.dump(document, f, indent=2) into a file opened with 'w': the file
\* holds the whole document, or, when a metadata value is not encodable,
\* what was written before the encoder raised TypeError
json_dump(doc) ==
    LET bad == {i \in 1..Len(MetadataKeys) :
                    doc.metadata[MetadataKeys[i]] = PyObject}
    IN  IF bad = {}
        THEN [outcome |-> Return(None),
              file |-> [complete |-> TRUE, document |-> doc]]
        ELSE LET first == CHOOSE i \in bad : \A j \in bad : i <= j
                 kept == {MetadataKeys[i] : i \in 1..(first - 1)}
             IN  [outcome |-> Raise([type |-> "TypeError"]),
                  file |-> [complete |-> FALSE,
                            document |-> [id |-> doc.id, title |-> doc.title,
                                          content |-> doc.content,
                                          metadata |-> [k \in kept |-> doc.metadata[k]]]]]

\* what the environment does to the two file-system calls: both succeed,
\* knowledge_dir.mkdir raises, or open(..., 'w') raises (either is an OSError)
FileSystem == {"ok", "mkdir_fails", "open_fails"}

Call(name, args, outcome) == [op |-> name, args |-> args, outcome |-> outcome]

\* the durable write is done before the index is updated
store_research_disk_first(query, research_data, output_dir, fs) ==
    LET built == document(query, research_data, output_dir)
        args == [query |-> query, research_data |-> research_data,
                 output_dir |-> output_dir]
    IN  IF "raised" \in DOMAIN built
        THEN /\ ret' = Call("store_research", args, built)
             /\ UNCHANGED <<_KNOWLEDGE_BASE, disk, ingested>>
        ELSE LET doc == built.returned
                 dumped == json_dump(doc)
             IN  IF fs # "ok"
                 THEN /\ ret' = Call("store_research", args, Raise([type |-> "OSError"]))
                      /\ UNCHANGED <<_KNOWLEDGE_BASE, disk, ingested>>
                 ELSE /\ disk' = (doc.id :> dumped.file) @@ disk
                      /\ IF "raised" \in DOMAIN dumped.outcome
                         THEN UNCHANGED <<_KNOWLEDGE_BASE, ingested>>
                         ELSE /\ _KNOWLEDGE_BASE' = dict_set(_KNOWLEDGE_BASE, doc.id, doc)
                              /\ ingested' = ingested \cup {doc.id}
                      /\ ret' = Call("store_research", args, dumped.outcome)

\* the index entry is made before the content is assembled
store_research_index_first(query, research_data, output_dir, fs) ==
    LET built == document(query, research_data, output_dir)
        args == [query |-> query, research_data |-> research_data,
                 output_dir |-> output_dir]
        id == _get_document_id(query, SourceTag)
    IN  IF "raised" \in DOMAIN built
        THEN /\ _KNOWLEDGE_BASE' = dict_set(_KNOWLEDGE_BASE, id,
                     [id |-> id, title |-> TitlePrefix \o query, content |-> <<>>,
                      metadata |-> [source |-> PyStr(SourceTag)], embeddings |-> <<>>])
             /\ ingested' = ingested \cup {id}
             /\ ret' = Call("store_research", args, built)
             /\ UNCHANGED disk
        ELSE LET doc == built.returned
                 dumped == json_dump(doc)
             IN  /\ _KNOWLEDGE_BASE' = dict_set(_KNOWLEDGE_BASE, doc.id, doc)
                 /\ ingested' = ingested \cup {doc.id}
                 /\ IF fs # "ok"
                    THEN /\ ret' = Call("store_research", args, Raise([type |-> "OSError"]))
                         /\ UNCHANGED disk
                    ELSE /\ disk' = (doc.id :> dumped.file) @@ disk
                         /\ ret' = Call("store_research", args, dumped.outcome)

\* store_research(query, research_data, output_dir), with the file system
\* behaving as fs: build the document, assign it into the index, then
\* mkdir(.knowledge), open the file for writing and dump
store_research(query, research_data, output_dir, fs) ==
    LET built == document(query, research_data, output_dir)
        args == [query |-> query, research_data |-> research_data,
                 output_dir |-> output_dir]
    IN  IF "raised" \in DOMAIN built
        THEN /\ ret' = Call("store_research", args, built)
             /\ UNCHANGED <<_KNOWLEDGE_BASE, disk, ingested>>
        ELSE LET doc == built.returned
                 dumped == json_dump(doc)
             IN  /\ _KNOWLEDGE_BASE' = dict_set(_KNOWLEDGE_BASE, doc.id, doc)
                 /\ ingested' = ingested \cup {doc.id}
                 /\ IF fs # "ok"
                    THEN /\ ret' = Call("store_research", args, Raise([type |-> "OSError"]))
                         /\ UNCHANGED disk
                    ELSE /\ disk' = (doc.id :> dumped.file) @@ disk
                         /\ ret' = Call("store_research", args, dumped.outcome)

----------------------------------------------------------------------------
(* query_knowledge                                                         *)

Unknown == <<"u","n","k","n","o","w","n">>

\* a / b on ints: a float, kept as the fraction it rounds (the counts here
\* are small, so two quotients compare as their fractions do)
divide(a, b) ==
    IF b = 0 THEN Raise([type |-> "ZeroDivisionError"])
    ELSE Return([num |-> a, den |-> b])

greater(x, y) == x.num * y.den > y.num * x.den

result_of(doc_id, doc, score) ==
    [id |-> doc_id,
     title |-> get(doc, "title", Untitled),
     content |-> doc["content"],
     source |-> get(get(doc, "metadata", <<>>), "source", PyStr(Unknown)),
     relevance_score |-> score]

\* the score is computed before the matches are tested
scan_document_eager(doc_id, doc, query_terms) ==
    LET content_terms == set(split(lower(doc["content"])))
        matches == query_terms \cap content_terms
        score == divide(Cardinality(matches), Cardinality(query_terms))
    IN  IF "raised" \in DOMAIN score THEN score
        ELSE IF matches # {}
        THEN Return(<<result_of(doc_id, doc, score.returned)>>)
        ELSE Return(<<>>)

\* the body of the loop over _KNOWLEDGE_BASE.items(): what it appends to
\* results, or what it raises
scan_document(doc_id, doc, query_terms) ==
    LET content_terms == set(split(lower(doc["content"])))
        matches == query_terms \cap content_terms
    IN  IF matches # {}
        THEN LET score == divide(Cardinality(matches), Cardinality(query_terms))
             IN  IF "raised" \in DOMAIN score THEN score
                 ELSE Return(<<result_of(doc_id, doc, score.returned)>>)
        ELSE Return(<<>>)

RECURSIVE insert_descending(_, _)
\* x put after every element that is not smaller: equal keys keep their order
insert_descending(sorted, x) ==
    IF sorted = <<>> THEN <<x>>
    ELSE IF greater(x.relevance_score, Head(sorted).relevance_score)
    THEN <<x>> \o sorted
    ELSE <<Head(sorted)>> \o insert_descending(Tail(sorted), x)

RECURSIVE insert_ascending(_, _)
insert_ascending(sorted, x) ==
    IF sorted = <<>> THEN <<x>>
    ELSE IF greater(Head(sorted).relevance_score, x.relevance_score)
    THEN <<x>> \o sorted
    ELSE <<Head(sorted)>> \o insert_ascending(Tail(sorted), x)

RECURSIVE sort_ascending(_)
\* the sort without reverse=True
sort_ascending(results) ==
    IF results = <<>> THEN <<>>
    ELSE insert_ascending(sort_ascending(SubSeq(results, 1, Len(results) - 1)),
                          results[Len(results)])

RECURSIVE sort_by_relevance(_)
\* results.sort(key=relevance_score, reverse=True): stable, highest first
sort_by_relevance(results) ==
    IF results = <<>> THEN <<>>
    ELSE insert_descending(sort_by_relevance(SubSeq(results, 1, Len(results) - 1)),
                           results[Len(results)])

\* the slice keeps one result more than the limit
truncate_off_by_one(results, limit) == slice_to(results, limit + 1)

\* results[:limit]
truncate(results, limit) == slice_to(results, limit)

RECURSIVE concat(_)
concat(seqs) == IF seqs = <<>> THEN <<>> ELSE Head(seqs) \o concat(Tail(seqs))

\* query_knowledge(query, limit) on the index kb
query_knowledge(kb, query, limit) ==
    LET query_terms == set(split(lower(query)))
        scanned == [i \in 1..Len(kb) |->
                        scan_document(kb[i].key, kb[i].value, query_terms)]
        bad == {i \in 1..Len(kb) : "raised" \in DOMAIN scanned[i]}
    IN  IF bad # {}
        THEN scanned[CHOOSE i \in bad : \A j \in bad : i <= j]
        ELSE Return(truncate(
                 sort_by_relevance(concat([i \in 1..Len(kb) |-> scanned[i].returned])),
                 limit))

----------------------------------------------------------------------------
(* generate_report                                                         *)

ReportTitle == <<"#"," ","R","e","s","e","a","r","c","h"," ","R","e","p","o","r","t",":"," ">>
SummaryHead == <<"T","h","i","s"," ","r","e","p","o","r","t"," ","w","a","s"," ","g","e","n","e","r","a","t","e","d"," ","b","a","s","e","d"," ","o","n"," ">>
SummaryTail == <<" ","r","e","l","e","v","a","n","t"," ","r","e","s","e","a","r","c","h"," ","i","t","e","m","s"," ","f","r","o","m"," ","t","h","e"," ","k","n","o","w","l","e","d","g","e"," ","b","a","s","e",".">>
Ellipsis == <<".", ".", ".">>

\* f"{value}" for a value of the model
format(v) ==
    IF v.type = "str" THEN v.value
    ELSE IF v.type = "NoneType" THEN <<"N","o","n","e">>
    ELSE <<"<","o","b","j","e","c","t",">">>

\* the six lines the loop adds for the i-th item
item_lines(i, item) ==
    << <<"#","#"," ">> \o str_int(i) \o <<".", " ">> \o item.title,
       <<>>,
       slice_to(item.content, ReportTruncate)
           \o (IF Len(item.content) > ReportTruncate THEN Ellipsis ELSE <<>>),
       <<>>,
       <<"*","S","o","u","r","c","e",":"," ">> \o format(item.source) \o <<"*">>,
       <<>> >>

report_lines(topic, relevant_items) ==
    << ReportTitle \o topic,
       <<>>,
       <<"#","#"," ","S","u","m","m","a","r","y">>,
       SummaryHead \o str_int(Len(relevant_items)) \o SummaryTail,
       <<>> >>
    \o concat([i \in 1..Len(relevant_items) |-> item_lines(i, relevant_items[i])])

\* the report queries with the default limit of a search
generate_report_default_limit(kb, topic) ==
    LET queried == query_knowledge(kb, topic, DefaultLimit)
    IN  IF "raised" \in DOMAIN queried THEN queried
        ELSE IF queried.returned = <<>> THEN Return(None)
        ELSE Return(PyStr(join(<<"\n">>, report_lines(topic, queried.returned))))

\* generate_report(topic) on the index kb
generate_report(kb, topic) ==
    LET queried == query_knowledge(kb, topic, ReportLimit)
    IN  IF "raised" \in DOMAIN queried THEN queried
        ELSE IF queried.returned = <<>> THEN Return(None)
        ELSE Return(PyStr(join(<<"\n">>, report_lines(topic, queried.returned))))

----------------------------------------------------------------------------
(* Inputs.                                                                 *)

\* two queries that differ only after their first PrefixLen characters
LongA == [i \in 1..(PrefixLen + 1) |-> IF i <= PrefixLen THEN "x" ELSE "a"]
LongB == [i \in 1..(PrefixLen + 1) |-> IF i <= PrefixLen THEN "x" ELSE "b"]

\* the i-th short query
DocQuery(i) == [j \in 1..i |-> "q"]

Queries == {LongA, LongB, DocQuery(1)}

OutputDir == <<"o","u","t">>

FindingT == [title |-> <<"T">>, content |-> <<"a">>]
FindingU == [title |-> <<"U">>, content |-> <<"b"," ","c">>]
FindingNoTitle == [content |-> <<"a">>]
FindingNoContent == [title |-> <<"T">>]

\* results of the producer that store_research can build a document from
WellFormed ==
    << [findings |-> <<FindingT>>, model |-> PyStr("opus"), timestamp |-> PyStr("t1")],
       [findings |-> <<FindingT, FindingU>>, model |-> PyStr("opus")],
       [model |-> PyObject, timestamp |-> PyStr("t2")] >>

\* results with a finding that lacks a field
Malformed ==
    { [findings |-> <<FindingT, FindingNoTitle>>, model |-> PyStr("opus")],
      [findings |-> <<FindingNoContent>>, model |-> PyStr("opus")] }

\* what the process specification ingests
ResearchData == {WellFormed[1], WellFormed[2]} \cup Malformed

Texts ==
    { <<>>,
      <<" ", "\n", " ">>,
      <<"A", " ", " ", "a">>,
      <<"A", " ", "b">>,
      <<"b", " ", "z", " ", "c">> }

Limits == ((0 - MaxLimit)..MaxLimit) \cup {DefaultLimit}

\* what the calls of the process specification are made with
CliTexts == { <<>>, <<"A", " ", "b">> }
CliLimits == {0 - 1, DefaultLimit}

----------------------------------------------------------------------------
(* The process.                                                            *)

Init ==
    /\ _KNOWLEDGE_BASE = <<>>
    /\ disk = <<>>
    /\ ingested = {}
    /\ ret = Call("import", <<>>, Return(None))

Store ==
    \E query \in Queries, research_data \in ResearchData, fs \in FileSystem :
        store_research(query, research_data, OutputDir, fs)

Query ==
    \E query \in CliTexts, limit \in CliLimits :
        /\ ret' = Call("query_knowledge", [query |-> query, limit |-> limit],
                       query_knowledge(_KNOWLEDGE_BASE, query, limit))
        /\ UNCHANGED <<_KNOWLEDGE_BASE, disk, ingested>>

Report ==
    \E topic \in CliTexts :
        /\ ret' = Call("generate_report", [topic |-> topic],
                       generate_report(_KNOWLEDGE_BASE, topic))
        /\ UNCHANGED <<_KNOWLEDGE_BASE, disk, ingested>>

\* the files of disk are loaded into the index when the module is imported
RestartReloading ==
    /\ \E order \in [1..Cardinality(DOMAIN disk) -> DOMAIN disk] :
          /\ \A i, j \in DOMAIN order : i # j => order[i] # order[j]
          /\ _KNOWLEDGE_BASE' =
                [i \in DOMAIN order |->
                    [key |-> order[i], value |-> disk[order[i]].document]]
    /\ ingested' = {}
    /\ ret' = Call("import", <<>>, Return(None))
    /\ UNCHANGED disk

\* the process ends and a new one imports the module: _KNOWLEDGE_BASE = {}
\* runs again, the files stay
Restart ==
    /\ _KNOWLEDGE_BASE' = <<>>
    /\ ingested' = {}
    /\ ret' = Call("import", <<>>, Return(None))
    /\ UNCHANGED disk

Next == Store \/ Query \/ Report \/ Restart

Spec == Init /\ [][Next]_vars

----------------------------------------------------------------------------
(* The pure functions query_knowledge and generate_report, applied to      *)
(* indexes of up to MaxDocs documents: the index after store_research was  *)
(* called for DocQuery(1), ..., DocQuery(n), the i-th call with the        *)
(* producer result pattern[((i - 1) % Len(pattern)) + 1].                  *)

Patterns == [1..MaxPeriod -> 1..Len(WellFormed)]

RECURSIVE IndexAfter(_, _)
IndexAfter(n, pattern) ==
    IF n = 0 THEN <<>>
    ELSE LET doc == document(DocQuery(n),
                             WellFormed[pattern[((n - 1) % Len(pattern)) + 1]],
                             OutputDir).returned
         IN  dict_set(IndexAfter(n - 1, pattern), doc.id, doc)

InitQuery ==
    \E n \in 0..MaxDocs, pattern \in Patterns :
        /\ _KNOWLEDGE_BASE = IndexAfter(n, pattern)
        /\ disk = [id \in dict_keys(_KNOWLEDGE_BASE) |->
                      json_dump(dict_get(_KNOWLEDGE_BASE, id)).file]
        /\ ingested = dict_keys(_KNOWLEDGE_BASE)
        /\ ret = Call("import", <<>>, Return(None))

\* One call is made on each index: neither function assigns to the index,
\* so a later call is given what the first was given.
QueryAny ==
    /\ ret.op = "import"
    /\ \E query \in Texts, limit \in Limits :
          ret' = Call("query_knowledge", [query |-> query, limit |-> limit],
                      query_knowledge(_KNOWLEDGE_BASE, query, limit))
    /\ UNCHANGED <<_KNOWLEDGE_BASE, disk, ingested>>

ReportAny ==
    /\ ret.op = "import"
    /\ \E topic \in Texts :
          ret' = Call("generate_report", [topic |-> topic],
                      generate_report(_KNOWLEDGE_BASE, topic))
    /\ UNCHANGED <<_KNOWLEDGE_BASE, disk, ingested>>

NextQuery == QueryAny \/ ReportAny

SpecQuery == InitQuery /\ [][NextQuery]_vars

----------------------------------------------------------------------------
(* Properties of query_knowledge and generate_report.                      *)

Terms(text) == set(split(lower(text)))

\* the terms the query of the last call shares with the i-th indexed document
SharedTerms(i) ==
    Terms(ret.args.query) \cap Terms(_KNOWLEDGE_BASE[i].value.content)

Matching == {i \in 1..Len(_KNOWLEDGE_BASE) : SharedTerms(i) # {}}

Queried == ret.op = "query_knowledge"
Reported == ret.op = "generate_report"
Returned == "returned" \in DOMAIN ret.outcome

\* C2: a query_knowledge call with a positive limit returns at most limit
\* items, each with a strictly positive relevance_score.
C2_AtMostLimitPositiveScores ==
    (Queried /\ ret.args.limit >= 1) =>
        /\ Returned
        /\ Len(ret.outcome.returned) <= ret.args.limit
        /\ \A j \in 1..Len(ret.outcome.returned) :
              /\ ret.outcome.returned[j].relevance_score.num > 0
              /\ ret.outcome.returned[j].relevance_score.den > 0

\* the limit cut results off: more documents match than were returned
C2_Witness ==
    /\ Queried /\ ret.args.limit >= 1 /\ Returned
    /\ Len(ret.outcome.returned) = ret.args.limit
    /\ Cardinality(Matching) > ret.args.limit

\* C3: a query_knowledge call with limit <= 0 returns the empty sequence.
C3_NonPositiveLimitEmpty ==
    (Queried /\ ret.args.limit <= 0) => ret.outcome = Return(<<>>)

\* C4: a call whose text has no term (empty, or whitespace only) raises
\* nothing; query_knowledge returns the empty sequence and generate_report
\* returns None.
C4_DegenerateQuery ==
    /\ (Queried /\ \A i \in 1..Len(ret.args.query) : ret.args.query[i] \in Whitespace)
          => ret.outcome = Return(<<>>)
    /\ (Reported /\ \A i \in 1..Len(ret.args.topic) : ret.args.topic[i] \in Whitespace)
          => ret.outcome = Return(None)

\* a whitespace-only query was made on an index that holds documents
C4_Witness ==
    /\ Queried /\ ret.args.query # <<>>
    /\ \A i \in 1..Len(ret.args.query) : ret.args.query[i] \in Whitespace
    /\ Len(_KNOWLEDGE_BASE) >= 2
    /\ \E i \in 1..Len(_KNOWLEDGE_BASE) : _KNOWLEDGE_BASE[i].value.content # <<>>
    /\ ret.outcome = Return(<<>>)

\* the lines of a text, the empty ones too: what lies between its newlines
LinesOf(text) ==
    LET breaks == {i \in 1..Len(text) : text[i] = "\n"}
        nth(k) == IF k = 0 THEN 0
                  ELSE IF k > Cardinality(breaks) THEN Len(text) + 1
                  ELSE CHOOSE p \in breaks : Cardinality({q \in breaks : q < p}) = k - 1
    IN  [k \in 1..(Cardinality(breaks) + 1) |->
            SubSeq(text, nth(k - 1) + 1, nth(k) - 1)]

IsNumberedHeader(line) ==
    /\ Len(line) >= 4
    /\ SubSeq(line, 1, 3) = SectionMark
    /\ \E d \in 1..10 : Digits[d] = line[4]

\* C6: generate_report returns None, and never an empty string, exactly
\* when query_knowledge(topic, 10) is empty; otherwise its text has one
\* numbered section per result of that query, numbered 1..k in ranked order
\* with k <= 10, and the summary line states k.
C6_ReportSections ==
    Reported =>
        LET items == query_knowledge(_KNOWLEDGE_BASE, ret.args.topic, 10).returned
            k == Len(items)
        IN  /\ Returned
            /\ (ret.outcome.returned = None) <=> (items = <<>>)
            /\ ret.outcome.returned # PyStr(<<>>)
            /\ (items # <<>>) =>
                  LET lines == LinesOf(ret.outcome.returned.value)
                      headers == SelectSeq(lines, IsNumberedHeader)
                  IN  /\ k <= 10
                      /\ Len(headers) = k
                      /\ \A i \in 1..k :
                            headers[i] = SectionMark \o str_int(i) \o <<".", " ">>
                                            \o items[i].title
                      /\ lines[4] = SummaryHead \o str_int(k) \o SummaryTail

\* a report was cut to ten sections on an index where more documents match
C6_Witness ==
    /\ Reported /\ Returned /\ ret.outcome.returned # None
    /\ Cardinality({i \in 1..Len(_KNOWLEDGE_BASE) :
           Terms(ret.args.topic) \cap Terms(_KNOWLEDGE_BASE[i].value.content) # {}}) > 10
    /\ Len(SelectSeq(LinesOf(ret.outcome.returned.value), IsNumberedHeader)) = 10

\* |query terms /\ content terms| of the indexed document with this id
SharedCount(id) ==
    Cardinality(Terms(ret.args.query) \cap Terms(dict_get(_KNOWLEDGE_BASE, id).content))

\* C9: for a query with at least one term and limit >= 1 the result holds
\* only documents that share a term with the query, each once, each scored
\* |shared terms| / |query terms| (so 0 < score <= 1), in order of
\* non-increasing score, cut to the first limit; no matching document left
\* out scores higher than a returned one.
C9_Ranking ==
    (Queried /\ ret.args.limit >= 1 /\ Terms(ret.args.query) # {}) =>
        /\ Returned
        /\ LET r == ret.outcome.returned
               n == Cardinality(Terms(ret.args.query))
               ids == {r[j].id : j \in 1..Len(r)}
               matching == {_KNOWLEDGE_BASE[i].key : i \in Matching}
           IN  /\ Len(r) = (IF Cardinality(matching) < ret.args.limit
                            THEN Cardinality(matching) ELSE ret.args.limit)
               /\ ids \subseteq matching
               /\ Cardinality(ids) = Len(r)
               /\ \A j \in 1..Len(r) :
                     /\ r[j].relevance_score.num * n
                            = SharedCount(r[j].id) * r[j].relevance_score.den
                     /\ r[j].relevance_score.num > 0
                     /\ r[j].relevance_score.num <= r[j].relevance_score.den
                     /\ r[j].content = dict_get(_KNOWLEDGE_BASE, r[j].id).content
               /\ \A j, l \in 1..Len(r) :
                     j < l => SharedCount(r[j].id) >= SharedCount(r[l].id)
               /\ \A id \in matching \ ids : \A j \in 1..Len(r) :
                     SharedCount(id) <= SharedCount(r[j].id)

\* results of different scores were returned, a lower-scored match was cut
\* off, and a document sharing no term was passed over
C9_Witness ==
    /\ Queried /\ ret.args.limit >= 2 /\ Returned
    /\ Len(ret.outcome.returned) = ret.args.limit
    /\ greater(ret.outcome.returned[1].relevance_score,
               ret.outcome.returned[ret.args.limit].relevance_score)
    /\ Cardinality(Matching) > ret.args.limit
    /\ Cardinality(Matching) < Len(_KNOWLEDGE_BASE)

----------------------------------------------------------------------------
(* Properties of store_research and of the life of the index.              *)

Stored == ret.op = "store_research"

FindingsOf(research_data) ==
    IF "findings" \in DOMAIN research_data THEN research_data.findings ELSE <<>>

LacksField(finding) ==
    "title" \notin DOMAIN finding \/ "content" \notin DOMAIN finding

IsMalformed(research_data) ==
    \E i \in 1..Len(FindingsOf(research_data)) : LacksField(FindingsOf(research_data)[i])

\* the two texts are equal as far as their first 1000 characters go
AgreeOnPrefix(s, t) ==
    SubSeq(s, 1, IF Len(s) < 1000 THEN Len(s) ELSE 1000)
        = SubSeq(t, 1, IF Len(t) < 1000 THEN Len(t) ELSE 1000)

\* the sections of well-formed findings, joined by a blank line
Rendered(research_data) ==
    join(<<"\n", "\n">>,
         [i \in 1..Len(FindingsOf(research_data)) |->
             SectionMark \o FindingsOf(research_data)[i].title \o <<"\n">>
                \o FindingsOf(research_data)[i].content])

\* C1: when store_research puts a document into an index that already holds
\* one whose query agrees with the new query on the first 1000 characters,
\* the index afterwards holds exactly one document for that prefix, with
\* the content and metadata of this call, and has not grown.
C1_LastWriteWins ==
    [][ ( /\ ret'.op = "store_research"
          /\ ~IsMalformed(ret'.args.research_data)
          /\ \E i \in 1..Len(_KNOWLEDGE_BASE) :
                AgreeOnPrefix(_KNOWLEDGE_BASE[i].value.metadata.query.value,
                              ret'.args.query) )
        => LET same == {i \in 1..Len(_KNOWLEDGE_BASE') :
                           AgreeOnPrefix(_KNOWLEDGE_BASE'[i].value.metadata.query.value,
                                         ret'.args.query)}
           IN  /\ Cardinality(same) = 1
               /\ Len(_KNOWLEDGE_BASE') = Len(_KNOWLEDGE_BASE)
               /\ \A i \in same :
                     LET doc == _KNOWLEDGE_BASE'[i].value
                     IN  /\ _KNOWLEDGE_BASE'[i].key = doc.id
                         /\ doc.title = TitlePrefix \o ret'.args.query
                         /\ doc.content = Rendered(ret'.args.research_data)
                         /\ doc.metadata.query = PyStr(ret'.args.query)
                         /\ doc.metadata.model = get(ret'.args.research_data, "model", None)
                         /\ doc.metadata.timestamp
                               = get(ret'.args.research_data, "timestamp", None)
      ]_vars

\* the query LongB was stored over the document of LongA: the index holds
\* two documents, the first now that of LongB, while the file of the shared
\* id still holds the document of LongA
C1_Witness ==
    /\ Stored /\ ret.args.query = LongB /\ ret.outcome = Raise([type |-> "OSError"])
    /\ Len(_KNOWLEDGE_BASE) = 2
    /\ _KNOWLEDGE_BASE[1].value.metadata.query = PyStr(LongB)
    /\ _KNOWLEDGE_BASE[1].key \in DOMAIN disk
    /\ disk[_KNOWLEDGE_BASE[1].key].document.metadata.query = PyStr(LongA)
    /\ disk[_KNOWLEDGE_BASE[1].key].document.content # _KNOWLEDGE_BASE[1].value.content

\* C5: the index is not reloaded from the files.  While this process has
\* stored nothing, every query_knowledge call returns the empty sequence and
\* every generate_report call returns None, whatever the files hold; and a
\* query never returns a document this process did not store.
C5_IndexNotReloaded ==
    /\ ingested = {} =>
          /\ \A text \in Texts, limit \in Limits :
                query_knowledge(_KNOWLEDGE_BASE, text, limit) = Return(<<>>)
          /\ \A topic \in Texts :
                generate_report(_KNOWLEDGE_BASE, topic) = Return(None)
          /\ Queried => ret.outcome = Return(<<>>)
          /\ Reported => ret.outcome = Return(None)
    /\ (Queried /\ Returned) =>
          \A j \in 1..Len(ret.outcome.returned) : ret.outcome.returned[j].id \in ingested

\* a new process, which has stored nothing, queried for terms that a
\* document on file contains and got nothing
C5_Witness ==
    /\ ingested = {} /\ Queried /\ ret.outcome = Return(<<>>)
    /\ \E id \in DOMAIN disk :
          /\ disk[id].complete
          /\ Terms(ret.args.query) \cap Terms(disk[id].document.content) # {}

\* C7 as stated: a finding that lacks its title or its content is rendered
\* with "Untitled" or with empty text, and the call stores the document.
C7_MissingFieldsDefaulted ==
    (Stored /\ IsMalformed(ret.args.research_data)) =>
        LET id == _get_document_id(ret.args.query, SourceTag)
            findings == FindingsOf(ret.args.research_data)
        IN  /\ ~("raised" \in DOMAIN ret.outcome /\ ret.outcome.raised.type = "KeyError")
            /\ id \in dict_keys(_KNOWLEDGE_BASE)
            /\ dict_get(_KNOWLEDGE_BASE, id).content =
                  join(<<"\n", "\n">>,
                       [i \in 1..Len(findings) |->
                           SectionMark
                             \o (IF "title" \in DOMAIN findings[i]
                                 THEN findings[i].title ELSE Untitled)
                             \o <<"\n">>
                             \o (IF "content" \in DOMAIN findings[i]
                                 THEN findings[i].content ELSE <<>>)])

\* C7 as amended: a finding that lacks its title or its content makes the
\* call raise KeyError for the first absent field, and nothing is rendered
\* in its place; when every finding has both fields the assembly raises
\* nothing and the index holds the document with every section rendered.
C7_MissingFieldRaises ==
    Stored =>
        LET findings == FindingsOf(ret.args.research_data)
            id == _get_document_id(ret.args.query, SourceTag)
        IN  IF IsMalformed(ret.args.research_data)
            THEN LET first == CHOOSE i \in 1..Len(findings) :
                                 /\ LacksField(findings[i])
                                 /\ \A j \in 1..(i - 1) : ~LacksField(findings[j])
                     key == IF "title" \notin DOMAIN findings[first]
                            THEN "title" ELSE "content"
                 IN  ret.outcome = Raise([type |-> "KeyError", key |-> key])
            ELSE /\ ~("raised" \in DOMAIN ret.outcome
                        /\ ret.outcome.raised.type = "KeyError")
                 /\ id \in dict_keys(_KNOWLEDGE_BASE)
                 /\ dict_get(_KNOWLEDGE_BASE, id).content
                        = Rendered(ret.args.research_data)

\* a call whose second finding has no title raised
C7_Witness ==
    /\ Stored
    /\ Len(FindingsOf(ret.args.research_data)) = 2
    /\ "title" \notin DOMAIN FindingsOf(ret.args.research_data)[2]
    /\ "raised" \in DOMAIN ret.outcome

\* C8: a store_research call whose producer result makes building the
\* document raise reports the error and leaves the index and the files as
\* they were.
C8_NoPartialIngest ==
    [][ (ret'.op = "store_research" /\ IsMalformed(ret'.args.research_data))
        => /\ "raised" \in DOMAIN ret'.outcome
           /\ _KNOWLEDGE_BASE' = _KNOWLEDGE_BASE
           /\ disk' = disk
           /\ ingested' = ingested
      ]_vars

\* a malformed call raised in a process whose index and files hold documents
C8_Witness ==
    /\ Stored /\ IsMalformed(ret.args.research_data)
    /\ "raised" \in DOMAIN ret.outcome
    /\ Len(_KNOWLEDGE_BASE) >= 1
    /\ DOMAIN disk # {}
    /\ _get_document_id(ret.args.query, SourceTag) \notin dict_keys(_KNOWLEDGE_BASE)

\* C10: the index is written before the file.  A store_research call that
\* fails with an I/O error leaves the files as they were and the index
\* holding the new document under its id; and a file is written only for an
\* id that the index then holds.
C10_IndexFirst ==
    [][ /\ (ret'.op = "store_research" /\ ret'.outcome = Raise([type |-> "OSError"]))
           => LET id == _get_document_id(ret'.args.query, SourceTag)
              IN  /\ disk' = disk
                  /\ id \in dict_keys(_KNOWLEDGE_BASE')
                  /\ dict_get(_KNOWLEDGE_BASE', id).content
                        = Rendered(ret'.args.research_data)
                  /\ dict_get(_KNOWLEDGE_BASE', id).metadata.query
                        = PyStr(ret'.args.query)
                  /\ Len(_KNOWLEDGE_BASE') = Cardinality(dict_keys(_KNOWLEDGE_BASE) \cup {id})
        /\ \A id \in DOMAIN disk' :
              (id \notin DOMAIN disk \/ disk'[id] # disk[id])
                 => id \in dict_keys(_KNOWLEDGE_BASE')
      ]_vars

\* a query returned a document that has no file
C10_Witness ==
    /\ Queried /\ Returned
    /\ \E j \in 1..Len(ret.outcome.returned) :
          ret.outcome.returned[j].id \notin DOMAIN disk

====
